---- MODULE Spec2Model ----
(***************************************************************************)
(* LeMerk: a Merkle tree stored as one flat array of cipher blocks, with   *)
(* arithmetic addressing between a position and its ancestor / children.   *)
(* The model covers LeMerkLevel (checked block access), LeMerkTree         *)
(* (get_node_by_index) and VirtualNode (get_ancestor, the mutable hash     *)
(* reference) of src/src/lib.rs.                                           *)
(***************************************************************************)
EXTENDS Integers, Sequences, FiniteSets, TLC

\* ------------------------------------------------------------------ bounds
\* Width of usize in bits (the real targets have 32 or 64).
UsizeBits == 4
\* Longest flat array the model builds.
MaxLen == 4
\* Cipher blocks are abstract values 0..MaxBlock.
MaxBlock == 1
\* depth_length ranges over 0..MaxDepth.
MaxDepth == 1

\* ------------------------------------------------------- machine integers
RECURSIVE Pow2(_)
Pow2(n) == IF n = 0 THEN 1 ELSE 2 * Pow2(n - 1)

\* usize::MAX
MaxUsize == Pow2(UsizeBits) - 1
\* isize::MAX: a Vec of non-zero-sized elements never holds more elements.
IsizeMax == Pow2(UsizeBits - 1) - 1

Usize == 0..MaxUsize
\* data::Index is a wrapper around one usize.
Index == Usize
Blocks == 0..MaxBlock

Min(a, b) == IF a < b THEN a ELSE b
LenLimit == Min(MaxLen, IsizeMax)

\* Option<T>: None is the empty sequence, Some(x) the one-element sequence.
None == <<>>
Some(x) == <<x>>
\* Result<T, E>
Ok(x) == [kind |-> "Ok", val |-> x]
Err(e) == [kind |-> "Err", err |-> e]

\* usize::checked_div / checked_mul / checked_add
checked_div(a, b) == IF b = 0 THEN None ELSE Some(a \div b)

\* Mutation: usize::wrapping_mul in place of checked_mul.
checked_mul_wrapping(a, b) == Some((a * b) % (MaxUsize + 1))
checked_mul(a, b) == IF a * b > MaxUsize THEN None ELSE Some(a * b)
checked_add(a, b) == IF a + b > MaxUsize THEN None ELSE Some(a + b)

\* From<LeMerkLevelError> for LeMerkTreeError, applied by the `?` operator.
TreeErrorFromLevelError(e) == e

\* ------------------------------------------------------------------ state
VARIABLES
    depth_length,    \* LeMerkTree.depth_length
    max_index,       \* LeMerkTree.max_index
    flat_hash_tree,  \* LeMerkTree.flat_hash_tree: the Vec of blocks; slot i is flat_hash_tree[i + 1]
    node,            \* the live VirtualNode borrowed from the tree, None or Some(node)
    ret,             \* the last call: [op, arg, val]
    written          \* history: per index, the last block written through a node looked up there, None if never

vars == <<depth_length, max_index, flat_hash_tree, node, ret, written>>
tree == <<depth_length, max_index, flat_hash_tree>>

\* A mutable reference into the Vec is the slot it points at.
MutRef(slot) == [slot |-> slot]
Deref(r) == flat_hash_tree[r.slot + 1]

\* ------------------------------------------------------------ LeMerkLevel
\* Mutation: the reference always points at the first slot.
get_cipher_block_mut_ref_first(self, value) ==
    LET index_usize == value
    IN  IF index_usize < Len(self)
        THEN Ok(MutRef(0))
        ELSE Err("Overflow")

get_cipher_block_mut_ref(self, value) ==
    LET index_usize == value
    IN  IF index_usize < Len(self)
        THEN Ok(MutRef(index_usize))
        ELSE Err("Overflow")

\* Mutation: the bounds check is off by one and rejects the last block.
get_cipher_block_short(self, value) ==
    LET index_usize == value
    IN  IF index_usize + 1 < Len(self)
        THEN Ok(self[index_usize + 1])
        ELSE Err("Overflow")

get_cipher_block(self, value) ==
    LET index_usize == value
    IN  IF index_usize < Len(self)
        THEN Ok(self[index_usize + 1])
        ELSE Err("Overflow")

\* ------------------------------------------------------------ VirtualNode
VirtualNode(data_hash, index, ancestor, left, right) ==
    [data_hash |-> data_hash, index |-> index, ancestor |-> ancestor,
     left |-> left, right |-> right]

\* Mutation: `<=` for `<`, so the root is its own ancestor.
get_ancestor_le(self) ==
    LET index == self.index
        d == checked_div(index, 2)
    IN  IF d = None THEN Err("IndexBadDivision")
        ELSE LET be_ancestor == d[1]
             IN  Ok(IF be_ancestor <= index THEN Some(be_ancestor) ELSE None)

get_ancestor(self) ==
    LET index == self.index
        d == checked_div(index, 2)
    IN  IF d = None THEN Err("IndexBadDivision")
        ELSE LET be_ancestor == d[1]
             IN  Ok(IF be_ancestor < index THEN Some(be_ancestor) ELSE None)

\* ------------------------------------------------------------- LeMerkTree
\* Mutation: the ancestor of the layout whose root's children are 1 and 2.
ancestor_of_heap0(index) ==
    IF index = 0 THEN Ok(None) ELSE Ok(Some((index - 1) \div 2))

\* lines 85-86: Result<Option<Index>, LeMerkTreeError>
ancestor_of(index) ==
    LET d == checked_div(index, 2)
    IN  IF d = None THEN Err("BadDivision")
        ELSE LET be_ancestor == d[1]
             IN  Ok(IF be_ancestor < index THEN Some(be_ancestor) ELSE None)

\* Mutation: the right child is compared with the length, not with max_index.
right_of_loose(index) ==
    LET m == checked_mul(index, 2)
    IN  IF m = None THEN Err("BadMultiplication")
        ELSE LET a == checked_add(m[1], 1)
             IN  IF a = None THEN Err("BadAddition")
                 ELSE LET be_right == a[1]
                      IN  Ok(IF be_right <= max_index + 1 THEN Some(be_right) ELSE None)

\* lines 87-94
right_of(index) ==
    LET m == checked_mul(index, 2)
    IN  IF m = None THEN Err("BadMultiplication")
        ELSE LET a == checked_add(m[1], 1)
             IN  IF a = None THEN Err("BadAddition")
                 ELSE LET be_right == a[1]
                      IN  Ok(IF be_right <= max_index THEN Some(be_right) ELSE None)

\* Mutation: the left child is tested on its own against max_index.
left_of_symmetric(index, right) ==
    LET m == checked_mul(index, 2)
    IN  IF m = None THEN Err("BadMultiplication")
        ELSE Ok(IF m[1] <= max_index THEN Some(m[1]) ELSE None)

\* lines 95-103
left_of(index, right) ==
    IF right # None
    THEN LET m == checked_mul(index, 2)
         IN  IF m = None THEN Err("BadMultiplication") ELSE Ok(Some(m[1]))
    ELSE Ok(None)

\* Mutation: `>=` for `>`, so max_index itself is rejected.
index_overflows_ge(index) == index >= max_index

\* Mutation: the index is checked against the array, not against max_index.
index_overflows_len(index) == index >= Len(flat_hash_tree)

\* line 84
index_overflows(index) == index > max_index

get_node_by_index(index) ==
    IF index_overflows(index) THEN Err("Overflow")
    ELSE LET ancestor == ancestor_of(index)
         IN  IF ancestor.kind = "Err" THEN ancestor
             ELSE LET right == right_of(index)
                  IN  IF right.kind = "Err" THEN right
                      ELSE LET left == left_of(index, right.val)
                           IN  IF left.kind = "Err" THEN left
                               ELSE LET data_hash == get_cipher_block_mut_ref(flat_hash_tree, index)
                                    IN  IF data_hash.kind = "Err"
                                        THEN Err(TreeErrorFromLevelError(data_hash.err))
                                        ELSE Ok(VirtualNode(data_hash.val, index,
                                                            ancestor.val, left.val, right.val))

\* ------------------------------------------------------------------- Init
Call(op, arg, val) == [op |-> op, arg |-> arg, val |-> val]

\* The arrays a construction leaves behind: every length up to the limit, the
\* slots filled with one block; WriteHash makes the contents differ.
BlockSeqs == {[j \in 1..n |-> b] : n \in 0..LenLimit, b \in Blocks}

Init ==
    /\ depth_length \in 0..MaxDepth
    /\ max_index \in Index
    /\ flat_hash_tree \in BlockSeqs
    /\ node = None
    /\ ret = Call("new", 0, Ok(0))
    /\ written = [j \in 0..(LenLimit - 1) |-> None]

\* ---------------------------------------------------------------- actions
\* tree.get_node_by_index(index): the previous node's borrow has ended.
GetNodeByIndex(index) ==
    LET r == get_node_by_index(index)
    IN  /\ ret' = Call("get_node_by_index", index, r)
        /\ node' = IF r.kind = "Ok" THEN Some(r.val) ELSE None
        /\ UNCHANGED <<depth_length, max_index, flat_hash_tree, written>>

\* tree.flat_hash_tree.get_cipher_block(value)
GetCipherBlock(value) ==
    /\ ret' = Call("get_cipher_block", value, get_cipher_block(flat_hash_tree, value))
    /\ node' = None
    /\ UNCHANGED <<depth_length, max_index, flat_hash_tree, written>>

\* tree.flat_hash_tree.get_cipher_block_mut_ref(value), the reference dropped unused
GetCipherBlockMutRef(value) ==
    /\ ret' = Call("get_cipher_block_mut_ref", value,
                   get_cipher_block_mut_ref(flat_hash_tree, value))
    /\ node' = None
    /\ UNCHANGED <<depth_length, max_index, flat_hash_tree, written>>

\* *node.data_hash = v, on the live node
WriteHash(v) ==
    /\ node # None
    /\ LET slot == node[1].data_hash.slot
       IN  flat_hash_tree' = [flat_hash_tree EXCEPT ![slot + 1] = v]
    /\ written' = [written EXCEPT ![node[1].index] = Some(v)]
    /\ ret' = Call("write_hash", v, Ok(0))
    /\ UNCHANGED <<depth_length, max_index, node>>

\* node.get_ancestor(), on the live node
GetAncestor ==
    /\ node # None
    /\ ret' = Call("get_ancestor", node[1].index, get_ancestor(node[1]))
    /\ UNCHANGED <<depth_length, max_index, flat_hash_tree, node, written>>

Next ==
    \/ \E index \in Index : GetNodeByIndex(index)
    \/ \E value \in Index : GetCipherBlock(value)
    \/ \E value \in Index : GetCipherBlockMutRef(value)
    \/ \E v \in Blocks : WriteHash(v)
    \/ GetAncestor

Spec == Init /\ [][Next]_vars

\* ----------------------------------------------------------------- claims
IsLookup(r) == r.op = "get_node_by_index"
LookupOk(r) == IsLookup(r) /\ r.val.kind = "Ok"
\* flat_hash_tree.len() == max_index + 1
ShapeInv == Len(flat_hash_tree) = max_index + 1
\* The coordinates a node names.
Children(n) == {n.left[k] : k \in DOMAIN n.left} \cup {n.right[k] : k \in DOMAIN n.right}
Neighbours(n) == Children(n) \cup {n.ancestor[k] : k \in DOMAIN n.ancestor}

\* C1: in a tree with flat_hash_tree.len() == max_index + 1, the lookup of an
\* index i <= max_index succeeds and the node's own index is i.
C1_LookupReturnsOwnIndex ==
    (IsLookup(ret) /\ ShapeInv /\ ret.arg <= max_index)
        => (ret.val.kind = "Ok" /\ ret.val.val.index = ret.arg)

C1_Witness ==
    /\ LookupOk(ret) /\ ShapeInv
    /\ ret.arg = max_index /\ ret.arg >= 2
    /\ ret.val.val.index = ret.arg

\* C2: a successful lookup of i has right = Some(2i+1) and left = Some(2i)
\* when 2i+1 <= max_index, and right = None and left = None otherwise, also
\* when 2i <= max_index.
C2_ChildrenRule ==
    LookupOk(ret) =>
        LET i == ret.arg
            n == ret.val.val
        IN  /\ (2 * i + 1 <= max_index) => (n.right = Some(2 * i + 1) /\ n.left = Some(2 * i))
            /\ (2 * i + 1 > max_index) => (n.right = None /\ n.left = None)
            /\ (n.left = None) <=> (n.right = None)

C2_Witness ==
    /\ LookupOk(ret)
    /\ ret.arg >= 1 /\ 2 * ret.arg = max_index
    /\ ret.val.val.left = None /\ ret.val.val.right = None

\* C3: a successful lookup of i > 0 has ancestor Some(i / 2), and the lookup
\* of 0 has ancestor None.
C3_AncestorRule ==
    LookupOk(ret) =>
        LET i == ret.arg
            n == ret.val.val
        IN  /\ (i > 0) => (n.ancestor = Some(i \div 2))
            /\ (i = 0) => (n.ancestor = None)

C3_Witness ==
    /\ LookupOk(ret)
    /\ ret.arg = 2
    /\ ret.val.val.ancestor = Some(1)

\* C4: the lookup of an index i > max_index returns Overflow, whatever the
\* tree's shape and also when 2i does not fit usize, and leaves depth_length,
\* max_index and every stored hash as they were.
C4_OverflowRejected ==
    [][(IsLookup(ret') /\ ret'.arg > max_index)
          => (ret'.val = Err("Overflow") /\ UNCHANGED tree)]_vars

C4_Witness ==
    /\ IsLookup(ret)
    /\ ret.arg > max_index /\ 2 * ret.arg > MaxUsize
    /\ max_index + 1 < Len(flat_hash_tree)
    /\ ret.val = Err("Overflow")

\* C5: a block written through the node looked up at i is the block a later
\* lookup of i refers to, and the write leaves every other slot, the length of
\* the array, depth_length and max_index as they were.
C5_ReadAfterWrite ==
    [][/\ (ret'.op = "write_hash") =>
            LET i == node[1].index
            IN  /\ Len(flat_hash_tree') = Len(flat_hash_tree)
                /\ flat_hash_tree'[i + 1] = ret'.arg
                /\ \A j \in 0..(Len(flat_hash_tree) - 1) :
                        j # i => flat_hash_tree'[j + 1] = flat_hash_tree[j + 1]
                /\ UNCHANGED <<depth_length, max_index>>
       /\ (LookupOk(ret') /\ written'[ret'.arg] # None) =>
            flat_hash_tree'[ret'.val.val.data_hash.slot + 1] = written'[ret'.arg][1]
      ]_vars

C5_Witness ==
    /\ LookupOk(ret)
    /\ written[ret.arg] # None
    /\ Deref(ret.val.val.data_hash) = written[ret.arg][1]
    /\ \E j \in DOMAIN written :
          /\ j # ret.arg /\ written[j] # None
          /\ written[j] # written[ret.arg]

\* C6: the lookup of an index i <= max_index whose 2i (or 2i + 1) does not fit
\* usize returns BadMultiplication (BadAddition when only the addition fails),
\* and the left and right of a successful lookup are the unwrapped 2i, 2i + 1.
C6_CheckedArithmetic ==
    IsLookup(ret) =>
        LET i == ret.arg
        IN  /\ (i <= max_index /\ 2 * i > MaxUsize) => ret.val = Err("BadMultiplication")
            /\ (i <= max_index /\ 2 * i <= MaxUsize /\ 2 * i + 1 > MaxUsize)
                   => ret.val = Err("BadAddition")
            /\ (ret.val.kind = "Ok") =>
                   /\ ret.val.val.left \in {None, Some(2 * i)}
                   /\ ret.val.val.right \in {None, Some(2 * i + 1)}

C6_Witness ==
    /\ IsLookup(ret)
    /\ ret.arg <= max_index /\ 2 * ret.arg > MaxUsize
    /\ ret.val = Err("BadMultiplication")

\* C7: on a Level of length n, get_cipher_block(i) and
\* get_cipher_block_mut_ref(i) return Overflow when i >= n and the block at
\* position i when i < n, and neither changes the Level.
C7_LevelAccess ==
    [][/\ (ret'.op = "get_cipher_block") =>
            /\ (ret'.arg >= Len(flat_hash_tree)) => ret'.val = Err("Overflow")
            /\ (ret'.arg < Len(flat_hash_tree)) => ret'.val = Ok(flat_hash_tree[ret'.arg + 1])
            /\ UNCHANGED flat_hash_tree
       /\ (ret'.op = "get_cipher_block_mut_ref") =>
            /\ (ret'.arg >= Len(flat_hash_tree)) => ret'.val = Err("Overflow")
            /\ (ret'.arg < Len(flat_hash_tree)) => ret'.val = Ok(MutRef(ret'.arg))
            /\ UNCHANGED flat_hash_tree
      ]_vars

C7_Witness ==
    /\ ret.op = "get_cipher_block"
    /\ ret.arg + 1 = Len(flat_hash_tree)
    /\ ret.val = Ok(1)
    /\ \E j \in 1..Len(flat_hash_tree) : flat_hash_tree[j] = 0

\* C8: get_ancestor() on a node returned by a lookup returns Ok with the
\* ancestor the node cached at lookup time, whatever was written since.
C8_AncestorRecomputed ==
    (ret.op = "get_ancestor") => ret.val = Ok(node[1].ancestor)

C8_Witness ==
    /\ ret.op = "get_ancestor"
    /\ node[1].index > 0
    /\ written[node[1].index] # None
    /\ ret.val = Ok(Some(node[1].index \div 2))

\* C9: in a tree with flat_hash_tree.len() == max_index + 1, every coordinate
\* a successful lookup returns is <= max_index and its own lookup does not
\* return Overflow.
C9_TraversalClosure ==
    (LookupOk(ret) /\ ShapeInv) =>
        \A c \in Neighbours(ret.val.val) :
            /\ c <= max_index
            /\ get_node_by_index(c) # Err("Overflow")

C9_Witness ==
    /\ LookupOk(ret) /\ ShapeInv
    /\ ret.val.val.ancestor # None
    /\ ret.val.val.right = Some(max_index)

\* C10: a child c that the lookup of i reports is not i itself, and the lookup
\* of c reports i as its ancestor.
C10_ParentChildConsistent ==
    LookupOk(ret) =>
        \A c \in Children(ret.val.val) :
            /\ c # ret.arg
            /\ LET r == get_node_by_index(c)
               IN  (r.kind = "Ok") => r.val.ancestor = Some(ret.arg)

====
